---- MODULE Spec2Model ----
(***************************************************************************)
(* HL7/MLLP exchange engine of eastgenomics/hl7_epic_integration.          *)
(*                                                                         *)
(*   Spec        one receiver session (src/hl7.py, handle_tcp_connection), *)
(*               its peer, the capture directory and the clock.            *)
(*   ServerSpec  two concurrent receiver sessions.                         *)
(*   TxSpec      one transmitter run (src/send_message.py,                 *)
(*               parse_and_send_message) with its socket holder.           *)
(*   SchedSpec   the scheduler of schedule mode (schedule_job).            *)
(*   StitchSpec  the segment stitcher (src/stitch_up.py) at one file name. *)
(*   AckSpec     the fields of the accept ack (ack_message_back).          *)
(*                                                                         *)
(* A byte string is a sequence of runs of bytes.  A run is one control     *)
(* byte (0x0B, 0x1C, 0x0D, 0x0A, or 0xFF, which is not UTF-8), or the      *)
(* bytes from..to of one segment of an ER7 text; the segments of a text    *)
(* have a carriage return between them.  The length of a byte string is    *)
(* the sum of the lengths of its runs.  A socket read returns the first n  *)
(* bytes in flight, 1 <= n <= 1024, and a write that fails on the way      *)
(* leaves the first n bytes of the text: a cut inside a segment leaves its *)
(* bytes from..from+n-1 on one side and the rest of the run on the other.  *)
(***************************************************************************)
EXTENDS Integers, Sequences, FiniteSets, TLC

\* ------------------------------------------------------------------ bounds
\* frames the peers send in one behaviour, over all connections
MaxFrames == 2
\* last tick the clock reaches in a behaviour of ServerSpec
MaxClock == 2
\* last tick the clock reaches in a behaviour of Spec
SessionClock == 0
\* messages gathered for one transmitter run
MaxMessages == 3
\* bytes of a short segment
SmallSegment == 8
\* a read that ends before the read limit and before the last byte in
\* flight ends after a whole run or at most this many bytes into one
MaxInto == 8
\* reads, over all connections, that end inside a frame before the read
\* limit is reached; they are allowed while fewer reads than this have
\* ended inside a frame
MaxCuts == 1
\* the most bytes a write to the capture file has written when it fails
MaxKept == 10

\* ------------------------------------------------------- program constants
\* reader.read(1024): the most bytes one read returns
ReadLimit == 1024
\* while attempt < 5
MaxAttempts == 5
\* time.sleep(300)
BackOff == 300

\* --------------------------------------------------------------- the bytes
\* the one-byte string of a control byte
Byte(b) == << [seg |-> b, from |-> 1, to |-> 1] >>

VT == Byte("0B")
FS == Byte("1C")
CR == Byte("0D")
LF == Byte("0A")
BAD == Byte("FF")

ControlBytes == {"0B", "1C", "0D", "0A", "FF"}

MLLP_START == VT
MLLP_END == FS \o CR

KnownSegments == {"MSH", "PID", "OBX", "MSA", "NTE"}

Min(a, b) == IF a < b THEN a ELSE b

\* the bytes of a segment's name
NameBytes == 3
\* the bytes of the shortest MSH segment a parser takes: the name, the field
\* separator and the four encoding characters
HeaderBytes == 8

\* the bytes of one whole segment: the NTE segments here are as long as one
\* read can be, the other segments are short
SegBytes(name) ==
    IF name \in ControlBytes THEN 1
    ELSE IF name = "NTE" THEN ReadLimit
    ELSE SmallSegment

\* the bytes of one whole segment, as a byte string
Whole(name) == << [seg |-> name, from |-> 1, to |-> SegBytes(name)] >>

\* the ER7 text of the segments named: '\r'.join(segments)
RECURSIVE Text(_)
Text(names) ==
    IF Len(names) = 1 THEN Whole(names[1])
    ELSE Whole(Head(names)) \o CR \o Text(Tail(names))

\* message texts the peers send: valid, no PID, not ER7 at all, not UTF-8,
\* and two valid ones with a segment that alone fills one read, after the
\* PID segment and before it
Payloads == { Text(<<"MSH", "PID">>), Text(<<"MSH", "OBX">>), Text(<<"???">>), BAD,
              Text(<<"MSH", "PID", "NTE">>), Text(<<"MSH", "NTE", "PID">>) }

Conns == {"c1", "c2"}

\* str.isspace(): 0x0A, 0x0B, 0x0D and 0x1C are white space to
\* str.lstrip() and str.strip()
IsSpace(b) == b.seg \in {"0B", "1C", "0A", "0D"}

\* wrap_with_mllp: start marker, the text, end marker
wrap_with_mllp(message) == MLLP_START \o message \o MLLP_END

startswith(data, prefix) ==
    /\ Len(data) >= Len(prefix)
    /\ SubSeq(data, 1, Len(prefix)) = prefix

endswith(data, suffix) ==
    /\ Len(data) >= Len(suffix)
    /\ SubSeq(data, Len(data) - Len(suffix) + 1, Len(data)) = suffix

\* bytes.decode(): UnicodeDecodeError on a byte that is not UTF-8
Decodable(data) == \A i \in 1..Len(data) : data[i] # BAD[1]

\* the outcome of a decode that raised
UnicodeDecodeError == <<"UnicodeDecodeError">>

\* a run of bytes of a segment, not a control byte
IsText(b) == b.seg \notin ControlBytes

\* the bytes of one run
RunBytes(b) == b.to - b.from + 1

\* len(data)
RECURSIVE Bytes(_)
Bytes(data) ==
    IF data = <<>> THEN 0 ELSE RunBytes(Head(data)) + Bytes(Tail(data))

\* data[:n]
RECURSIVE Taken(_, _)
Taken(w, n) ==
    IF n <= 0 \/ w = <<>> THEN <<>>
    ELSE IF RunBytes(Head(w)) <= n
    THEN <<Head(w)>> \o Taken(Tail(w), n - RunBytes(Head(w)))
    ELSE << [Head(w) EXCEPT !.to = Head(w).from + n - 1] >>

\* data[n:]
RECURSIVE Left(_, _)
Left(w, n) ==
    IF n <= 0 \/ w = <<>> THEN w
    ELSE IF RunBytes(Head(w)) <= n
    THEN Left(Tail(w), n - RunBytes(Head(w)))
    ELSE << [Head(w) EXCEPT !.from = @ + n] >> \o Tail(w)

\* the first n bytes of w end with the last byte of a frame, or of w
AfterFrame(w, n) ==
    \/ n >= Bytes(w)
    \/ /\ n > 0
       /\ endswith(Taken(w, n), CR)
       /\ startswith(Left(w, n), VT)

\* reader.read(limit) can return the first n bytes of the bytes w in
\* flight: at least one byte and at most limit; fewer than the limit and
\* than all of w inside a frame only when free allows (no more had arrived)
CanEnd(w, n, limit, free) ==
    /\ n >= 1
    /\ n <= Min(limit, Bytes(w))
    /\ \/ n = Min(limit, Bytes(w))
       \/ free
       \/ AfterFrame(w, n)

\* the byte counts after each whole run of w, and up to MaxInto bytes into
\* the run that follows
RECURSIVE Lengths(_, _)
Lengths(w, before) ==
    IF w = <<>> THEN {before}
    ELSE { before + n : n \in 0..Min(RunBytes(Head(w)) - 1, MaxInto) }
            \cup Lengths(Tail(w), before + RunBytes(Head(w)))

\* the byte counts reader.read(limit) can return of the bytes w in flight:
\* it returns Taken and leaves Left
ReadCuts(w, limit, free) ==
    { n \in Lengths(w, 0) \cup {Min(limit, Bytes(w))} : CanEnd(w, n, limit, free) }

\* remove_mllp_framing_bytes: data[1:-2] when both markers are there, then
\* decode('utf-8'), then every line feed replaced by a carriage return
remove_mllp_framing_bytes(data) ==
    LET inner == IF startswith(data, MLLP_START) /\ endswith(data, MLLP_END)
                 THEN SubSeq(data, 1 + Len(MLLP_START), Len(data) - Len(MLLP_END))
                 ELSE data
    IN  IF ~Decodable(inner) THEN UnicodeDecodeError
        ELSE [i \in 1..Len(inner) |-> IF inner[i] = LF[1] THEN CR[1] ELSE inner[i]]

\* ------------------------------------------------- hl7apy.parser, as called
\* str.lstrip(): drop the leading white space
RECURSIVE lstrip(_)
lstrip(s) == IF s # <<>> /\ IsSpace(Head(s)) THEN lstrip(Tail(s)) ELSE s

\* str.rstrip(): drop the trailing white space
RECURSIVE rstrip(_)
rstrip(s) ==
    IF s # <<>> /\ IsSpace(s[Len(s)]) THEN rstrip(SubSeq(s, 1, Len(s) - 1)) ELSE s

strip(s) == rstrip(lstrip(s))

\* text.split('\r'): the pieces between carriage returns
RECURSIVE split(_, _, _)
split(s, piece, acc) ==
    IF s = <<>> THEN Append(acc, piece)
    ELSE IF Head(s) = CR[1] THEN split(Tail(s), <<>>, Append(acc, piece))
    ELSE split(Tail(s), Append(piece, Head(s)), acc)

\* the outcome of a parse that raised
ParserError == <<"ParserError">>

\* the segment a parser finds in a run of bytes: a segment HL7 knows, from
\* its first byte on, whole or cut short after its name (after its header,
\* for MSH); "?" for anything else
SegmentOf(b) ==
    IF /\ b.seg \in KnownSegments
       /\ b.from = 1
       /\ b.to >= (IF b.seg = "MSH" THEN HeaderBytes ELSE NameBytes)
    THEN b.seg
    ELSE "?"

\* the segment names of one stripped piece; ParserError when the piece is
\* empty, holds a control byte, or has a segment HL7 does not know, one cut
\* short inside its name, or what is left of one
RECURSIVE parse_segment(_)
parse_segment(piece) ==
    IF piece = <<>> THEN ParserError
    ELSE IF ~IsText(Head(piece)) \/ SegmentOf(Head(piece)) = "?"
    THEN ParserError
    ELSE LET rest == IF Len(piece) = 1 THEN <<>> ELSE parse_segment(Tail(piece))
         IN  IF rest = ParserError THEN ParserError
             ELSE <<SegmentOf(Head(piece))>> \o rest

\* the segments of the non-empty pieces, in order
RECURSIVE parse_segments(_)
parse_segments(pieces) ==
    IF pieces = <<>> THEN <<>>
    ELSE IF Head(pieces) = <<>> THEN parse_segments(Tail(pieces))
    ELSE LET first == parse_segment(strip(Head(pieces)))
             rest == parse_segments(Tail(pieces))
         IN  IF first = ParserError \/ rest = ParserError
             THEN ParserError
             ELSE first \o rest

\* parse_message(text): the segment names of the message, or ParserError.
\* The text is left-stripped, must start with an MSH segment that has its
\* header, and is cut at '\r'.
parse_message(text) ==
    LET m == lstrip(text)
    IN  IF m = <<>> \/ SegmentOf(Head(m)) # "MSH" THEN ParserError
        ELSE parse_segments(split(m, <<>>, <<>>))

Range(s) == { s[i] : i \in 1..Len(s) }

\* ------------------------------------------------- validation and the acks
\* validate_message: MSH and PID both present; any parser fault is False
validate_message(data) ==
    LET m == parse_message(data)
    IN  m # ParserError /\ {"MSH", "PID"} \subseteq Range(m)

None == <<>>

\* the ER7 text of an ACK with the given MSA-1: an MSH and an MSA segment
AckText(code) ==
    Whole("MSH") \o CR \o << [seg |-> "MSA", from |-> 1, to |-> SmallSegment, msa_1 |-> code] >>

\* ack_message_back: the accept ACK, or None when the original cannot be parsed
ack_message_back(original_message) ==
    IF parse_message(original_message) = ParserError THEN None ELSE AckText("AA")

\* create_error_ack: the reject ACK, or None when the original cannot be parsed
create_error_ack(original_message) ==
    IF parse_message(original_message) = ParserError THEN None ELSE AckText("AE")

\* ------------------------------------------------------ the capture sink
\* ticks of the model clock in one second
TicksPerSecond == 2

\* datetime.now().strftime("%Y%m%d_%H%M%S"): the clock cut to whole seconds
timestamp(t) == t \div TicksPerSecond

\* open(f'{response_dir}/{timestamp}.txt', "w+") then f.write(data): the file
\* of that name is created, or truncated and rewritten
write_to_file(fs, t, data) ==
    [ name \in DOMAIN fs \cup {timestamp(t)} |->
        IF name = timestamp(t) THEN data ELSE fs[name] ]

\* ------------------------------------------------------------ the state
VARIABLES
    wire,       \* per connection: bytes sent by the peer, not yet read
    peerSent,   \* per connection: the message texts the peer framed and sent
    peerClosed, \* per connection: the peer has closed its end
    pc,         \* per connection: where handle_tcp_connection stands
    pass,       \* per connection: what the current loop pass did, in order
    nread,      \* per connection: reads that returned data so far
    persisted,  \* per connection: write_to_file calls that returned so far
    matched,    \* per connection: how many of the texts persisted so far are,
                \* in order, the framed messages the peer sent
    files,      \* the capture directory: file name -> content
    now,        \* the clock, in ticks, as last read by write_to_file
    cuts,       \* reads so far that ended inside a frame
    tx,         \* the transmitter run (TxSpec)
    sched,      \* the scheduler of schedule mode (SchedSpec)
    stitch,     \* the segment stitcher at one file name (StitchSpec)
    build       \* one call of ack_message_back (AckSpec)

rvars == <<wire, peerSent, peerClosed, pc, pass, nread, persisted, matched, files, now, cuts>>
ovars == <<sched, stitch, build>>
vars == <<wire, peerSent, peerClosed, pc, pass, nread, persisted, matched, files, now, cuts, tx,
          sched, stitch, build>>

Event(e, a) == [ev |-> e, arg |-> a]

Last(s) == s[Len(s)]

TotalSent == Len(peerSent["c1"]) + Len(peerSent["c2"])

RStart(spent) ==
    /\ wire = [c \in Conns |-> <<>>]
    /\ peerSent = [c \in Conns |-> <<>>]
    /\ peerClosed = [c \in Conns |-> FALSE]
    /\ pc = [c \in Conns |-> "reading"]
    /\ pass = [c \in Conns |-> <<>>]
    /\ nread = [c \in Conns |-> 0]
    /\ persisted = [c \in Conns |-> 0]
    /\ matched = [c \in Conns |-> 0]
    /\ files = [name \in {} |-> <<>>]
    /\ now = 0
    /\ cuts = spent

\* the receiver when a connection has just been accepted
RInit == RStart(0)


\* ------------------------------------------------------------ the peers
\* the peer frames one message and sends it
PeerSend(c, p, most) ==
    /\ TotalSent < most
    /\ ~peerClosed[c]
    /\ pc[c] \in {"reading", "draining"}
    /\ wire' = [wire EXCEPT ![c] = @ \o wrap_with_mllp(p)]
    /\ peerSent' = [peerSent EXCEPT ![c] = Append(@, p)]
    /\ UNCHANGED <<peerClosed, pc, pass, nread, persisted, matched, files, now, cuts, tx, ovars>>

\* the peer closes its end of the connection
PeerClose(c) ==
    /\ ~peerClosed[c]
    /\ pc[c] \in {"reading", "draining"}
    /\ peerClosed' = [peerClosed EXCEPT ![c] = TRUE]
    /\ UNCHANGED <<wire, peerSent, pc, pass, nread, persisted, matched, files, now, cuts, tx, ovars>>

\* ----------------------------------------------- handle_tcp_connection
\* how write_to_file ends: the text is stored; makedirs or open raises;
\* the write raises after open has created or emptied the file and kept
\* bytes of the text have reached it
Stored == [how |-> "stored", kept |-> 0]
OpenErr == [how |-> "open_err", kept |-> 0]
WriteErr(n) == [how |-> "write_err", kept |-> n]

Sinks == {Stored, OpenErr} \cup { WriteErr(n) : n \in 0..MaxKept }

\* write_to_file(data=message), the last statement of one loop pass, at clock
\* reading t: the sink takes the text and the session reads again, or the sink
\* raises and the exception leaves the handler; a write that raises leaves
\* the file, created or emptied by open, with the bytes of the text that
\* were written before
Persist(c, message, sink, sofar, t) ==
    IF sink.how = "stored"
    THEN /\ files' = write_to_file(files, t, message)
         /\ pc' = [pc EXCEPT ![c] = "reading"]
         /\ pass' = [pass EXCEPT ![c] = Append(sofar, Event("persist", message))]
         /\ persisted' = [persisted EXCEPT ![c] = @ + 1]
         /\ matched' = [matched EXCEPT ![c] =
                IF /\ @ = persisted[c]
                   /\ @ < Len(peerSent[c])
                   /\ message = wrap_with_mllp(peerSent[c][@ + 1])
                THEN @ + 1 ELSE @]
    ELSE /\ sink.how = "write_err" => sink.kept < Bytes(message)
         /\ files' = IF sink.how = "open_err" THEN files
                     ELSE write_to_file(files, t, Taken(message, sink.kept))
         /\ pc' = [pc EXCEPT ![c] = "failed"]
         /\ pass' = [pass EXCEPT ![c] = Append(sofar, Event("persist_err", message))]
         /\ UNCHANGED <<persisted, matched>>

\* the byte counts the read the session of c is waiting in can return
Reads(c) ==
    IF pc[c] = "reading" THEN ReadCuts(wire[c], ReadLimit, cuts < MaxCuts) ELSE {}

\* the response chosen for a message: accept ack when valid, reject ack when not
Response(message) ==
    IF validate_message(message)
    THEN ack_message_back(message)
    ELSE create_error_ack(message)

\* one pass of the loop from reader.read(1024), which returns n bytes, to
\* the first await after it: decode, validate, build the ack; with an ack,
\* write it and await drain(); without one, go straight to write_to_file
ReadChunk(c, n, sink, t) ==
    /\ pc[c] = "reading"
    /\ CanEnd(wire[c], n, ReadLimit, cuts < MaxCuts)
    /\ now' = t
    /\ LET data == Taken(wire[c], n)
           response == IF Decodable(data) THEN Response(data) ELSE None
           l1 == <<Event("read", data)>>
           l2 == Append(l1, Event(IF validate_message(data) THEN "valid"
                                                            ELSE "invalid", data))
       IN  /\ wire' = [wire EXCEPT ![c] = Left(wire[c], n)]
           /\ nread' = [nread EXCEPT ![c] = @ + 1]
           /\ IF ~Decodable(data)
              THEN /\ sink = Stored /\ t = now
                   /\ pc' = [pc EXCEPT ![c] = "failed"]
                   /\ pass' = [pass EXCEPT ![c] = Append(l1, Event("decode_err", data))]
                   /\ UNCHANGED <<files, persisted, matched>>
              ELSE IF response # None
              THEN /\ sink = Stored /\ t = now
                   /\ pc' = [pc EXCEPT ![c] = "draining"]
                   /\ pass' = [pass EXCEPT ![c] =
                                Append(l2, Event("ack", wrap_with_mllp(response)))]
                   /\ UNCHANGED <<files, persisted, matched>>
              ELSE /\ sink = OpenErr => t = now
                   /\ Persist(c, data, sink, l2, t)
    /\ cuts' = IF AfterFrame(wire[c], n) THEN cuts ELSE cuts + 1
    /\ UNCHANGED <<peerSent, peerClosed, tx, ovars>>

\* await writer.drain() returns or raises; when it returns, write_to_file
Drain(c, drainOk, sink, t) ==
    /\ pc[c] = "draining"
    /\ now' = t
    /\ IF drainOk
       THEN /\ sink = OpenErr => t = now
            /\ Persist(c, pass[c][1].arg, sink, pass[c], t)
       ELSE /\ sink = Stored /\ t = now
            /\ pc' = [pc EXCEPT ![c] = "failed"]
            /\ pass' = [pass EXCEPT ![c] = Append(@, Event("drain_err", <<>>))]
            /\ UNCHANGED <<files, persisted, matched>>
    /\ UNCHANGED <<wire, peerSent, peerClosed, nread, cuts, tx, ovars>>

\* reader.read returns b'': break, writer.close()
ReadEOF(c) ==
    /\ pc[c] = "reading"
    /\ wire[c] = <<>>
    /\ peerClosed[c]
    /\ pc' = [pc EXCEPT ![c] = "closed"]
    /\ UNCHANGED <<wire, peerSent, peerClosed, pass, nread, persisted, matched, files, now, cuts, tx, ovars>>

\* reader.read raises (connection reset): the exception leaves the handler
ReadError(c) ==
    /\ pc[c] = "reading"
    /\ pc' = [pc EXCEPT ![c] = "failed"]
    /\ pass' = [pass EXCEPT ![c] = <<Event("read_err", <<>>)>>]
    /\ UNCHANGED <<wire, peerSent, peerClosed, nread, persisted, matched, files, now, cuts, tx, ovars>>

\* what one connection, its peer and its session can do: the peer sends one
\* of the texts while fewer than most frames were sent, and the clock
\* reaches till
Session(c, most, texts, till) ==
    \/ \E p \in texts : PeerSend(c, p, most)
    \/ PeerClose(c)
    \/ \E n \in Reads(c), s \in Sinks, t \in now..till : ReadChunk(c, n, s, t)
    \/ \E d \in BOOLEAN, s \in Sinks, t \in now..till : Drain(c, d, s, t)
    \/ ReadEOF(c)
    \/ ReadError(c)

\* one accepted connection, all its loop passes within one tick of the clock
Next == Session("c1", MaxFrames, Payloads, SessionClock)

\* the receiver alone: no transmitter run
Init == RInit /\ tx = 0 /\ sched = 0 /\ stitch = 0 /\ build = 0

Spec == Init /\ [][Next]_vars

\* start_tcp_server: handle_tcp_connection runs as one task per accepted
\* connection, the tasks interleaved at their awaits
\* the payloads whose frame one read can hold
ShortPayloads == { p \in Payloads : Bytes(wrap_with_mllp(p)) <= ReadLimit }

ServerNext == \E c \in Conns : Session(c, MaxFrames, ShortPayloads, MaxClock)

\* the sessions are interleaved on frames that one read can hold, with
\* reads that end after a frame
ServerInit == RStart(MaxCuts) /\ tx = 0 /\ sched = 0 /\ stitch = 0 /\ build = 0

ServerSpec == ServerInit /\ [][ServerNext]_vars

\* ------------------------------------------------- claims on the receiver
\* write_to_file calls made by the session of c, returned or raised
Handed(c) ==
    persisted[c] + (IF pass[c] # <<>> /\ Last(pass[c]).ev = "persist_err" THEN 1 ELSE 0)

\* the session of c has nothing left to read and is not inside a loop pass
Quiet(c) == wire[c] = <<>> /\ pc[c] # "draining"

\* C1: when frame(x) then frame(y) arrive on one connection and the session
\* ends at end-of-stream, the session has processed exactly two messages and
\* the texts it persisted are, in order, those two framed messages, however
\* the bytes were split across reads.
C1_TwoFramesTwoMessages ==
    \A c \in Conns :
        (pc[c] = "closed" /\ Len(peerSent[c]) = 2 /\ BAD \notin Range(peerSent[c]))
            => (nread[c] = 2 /\ persisted[c] = 2 /\ matched[c] = 2)

\* C2: once a session has consumed everything its peer sent, it has handed
\* to the capture sink exactly as many texts as frames were sent.
C2_EachFrameHandedOnce ==
    \A c \in Conns : Quiet(c) => Handed(c) = Len(peerSent[c])

\* C3: when flushing the acknowledgment fails, the text of that read has
\* still been persisted (every text read so far is in the sink).
C3_AckFailureStillPersists ==
    \A c \in Conns :
        (pass[c] # <<>> /\ Last(pass[c]).ev = "drain_err") => persisted[c] = nread[c]

\* C4: when the capture sink fails, the session is back at reading.
C4_SinkFailureKeepsSession ==
    \A c \in Conns :
        (pass[c] # <<>> /\ Last(pass[c]).ev = "persist_err") => pc[c] = "reading"

\* undecodable bytes, unparseable text or missing segments
Malformed(data) == ~Decodable(data) \/ ~validate_message(data)

\* C5: a session whose last read returned malformed input has not ended,
\* unless a socket error or a sink error ended it.
C5_ContentNeverEndsSession ==
    \A c \in Conns :
        (pc[c] = "failed" /\ pass[c][1].ev = "read" /\ Malformed(pass[c][1].arg))
            => Last(pass[c]).ev \in {"drain_err", "persist_err"}

\* the steps of one loop pass come in the order read, validate, acknowledge,
\* persist, with the acknowledgment the validation result calls for
PassInOrder(l) ==
    \/ l = <<>>
    \/ l = <<Event("read_err", <<>>)>>
    \/ /\ l[1].ev = "read"
       /\ \A k \in 2..Len(l) :
            /\ l[k].ev \in {"valid", "invalid"} =>
                 /\ k = 2
                 /\ l[k].arg = l[1].arg
                 /\ (l[k].ev = "valid") = validate_message(l[1].arg)
            /\ l[k].ev = "ack" =>
                 /\ k = 3
                 /\ l[2].ev = "valid" => l[k].arg = MLLP_START \o AckText("AA") \o MLLP_END
                 /\ l[2].ev = "invalid" => l[k].arg = MLLP_START \o AckText("AE") \o MLLP_END
            /\ l[k].ev \in {"persist", "persist_err"} =>
                 /\ k = Len(l)
                 /\ l[k].arg = l[1].arg
                 /\ l[2].ev \in {"valid", "invalid"}
                 /\ \/ k = 4 /\ l[3].ev = "ack"
                    \/ k = 3 /\ Response(l[1].arg) = None
            /\ l[k].ev \in {"decode_err", "drain_err"} => k = Len(l)

\* the frames the peer of c has sent, as bytes
FramesSent(c) == { wrap_with_mllp(peerSent[c][i]) : i \in 1..Len(peerSent[c]) }

\* C6: for each received frame the steps are validate, then acknowledge,
\* then persist: what a loop pass has read is one frame the peer sent; an
\* accept ack (AA) is written when its validation is true, a reject ack (AE)
\* when false, inside MLLP markers (no ack at all only when none can be
\* built, C19); the sink write comes after the ack write, and the session
\* reads again only after the sink write.
C6_ValidateAckPersist ==
    \A c \in Conns :
        /\ PassInOrder(pass[c])
        /\ (pass[c] # <<>> /\ pass[c][1].ev = "read") => pass[c][1].arg \in FramesSent(c)
        /\ (pc[c] = "reading" /\ nread[c] > 0) => Last(pass[c]).ev = "persist"
        /\ pc[c] = "draining" => Last(pass[c]).ev = "ack"

\* C19: when no ack can be built for a frame that was read, nothing is
\* written to the peer for it, the frame is persisted as it was read, and
\* the session is back at reading (or has since read end-of-stream).
C19_NoAckNothingWritten ==
    \A c \in Conns :
        (/\ pass[c] # <<>>
         /\ pass[c][1].ev = "read"
         /\ pass[c][1].arg \in FramesSent(c)
         /\ Decodable(pass[c][1].arg)
         /\ Response(pass[c][1].arg) = None) =>
            /\ \A k \in 1..Len(pass[c]) : pass[c][k].ev # "ack"
            /\ Last(pass[c]).ev = "persist"
            /\ Last(pass[c]).arg = pass[c][1].arg
            /\ pc[c] \in {"reading", "closed"}

\* C7: every text persisted has an entry of its own in the capture
\* directory (no write replaces an earlier one), whatever the interleaving
\* of the sessions.
C7_OneEntryPerWrite ==
    Cardinality(DOMAIN files) >= persisted["c1"] + persisted["c2"]

\* ======================================================== the transmitter
\* (host, port) pairs a run may be given
Targets == { [host |-> "epic", port |-> 6661], [host |-> "test", port |-> 6662] }

\* what sendall or recv can raise
Errors == {"BrokenPipeError", "ConnectionResetError", "TimeoutError"}

\* a source file: its text parses ("ok"), makes hl7apy raise ParserError
\* ("unparseable"), makes hl7apy raise another exception ("parser_fault"),
\* or the file is not UTF-8 text ("undecodable")
SourceKinds == {"ok", "unparseable", "parser_fault", "undecodable"}

\* what the entries of the list files hold, in the order of the list
SourceLists == UNION { [1..n -> SourceKinds] : n \in 0..MaxMessages }

\* the list files, its entries as paths: files.append(file) once per folder
\* given, so a folder given more than once gives its files more than once.
\* A path stands as the position of its first entry in the list, and the
\* entries of one path hold the same text
FileLists(sources) ==
    { f \in [1..Len(sources) -> 1..Len(sources)] :
        \A k \in 1..Len(sources) : /\ f[k] <= k
                                    /\ f[f[k]] = f[k]
                                    /\ sources[f[k]] = sources[k] }

\* what the paths argument holds: pathlib.Path objects (argparse type=Path),
\* plain str, or objects that are str and have the Path methods; and what
\* folder.iterdir() yields for the last kind
PathKinds ==
    { [paths |-> "Path", files |-> "Path"], [paths |-> "str", files |-> "none"],
      [paths |-> "strlike", files |-> "Path"], [paths |-> "strlike", files |-> "strlike"] }

\* parse_hl7_file: f.read() returns the text or raises UnicodeDecodeError
parse_hl7_file(src) == IF src = "undecodable" THEN "raises" ELSE "text"

\* str_to_er7_hl7_message: the ER7 text; None on a ParserError; any other
\* exception of the parser is not caught
str_to_er7_hl7_message(src) ==
    IF src = "ok" THEN "text"
    ELSE IF src = "unparseable" THEN "None"
    ELSE "raises"

\* for file in files: ... messages[file] = hl7_msg: the keys of the dict, in
\* insertion order: the paths that parsed, each once, where it is first in
\* the list (a later entry of the same path sets the same key again)
RECURSIVE Gather(_, _, _)
Gather(sources, listed, k) ==
    IF k > Len(sources) THEN <<>>
    ELSE IF str_to_er7_hl7_message(sources[k]) = "text" /\ listed[k] = k
         THEN <<k>> \o Gather(sources, listed, k + 1)
         ELSE Gather(sources, listed, k + 1)

\* lines 178-200 raise: ", ".join(paths) on Path objects (TypeError, line
\* 178), folder.iterdir() on a plain str (AttributeError, line 41),
\* ", ".join(files) on Path files (TypeError, line 188), reading a file that
\* is not UTF-8 (line 67), a parser exception other than ParserError (line 88)
GatherRaises(t) ==
    \/ t.kind.paths \in {"Path", "str"}
    \/ t.sources # <<>> /\ t.kind.files = "Path"
    \/ \E k \in 1..Len(t.sources) :
          \/ parse_hl7_file(t.sources[k]) = "raises"
          \/ str_to_er7_hl7_message(t.sources[k]) = "raises"

\* connect_to_socket(new_socket, host, port): the n-th socket of the run,
\* connected to the run's own target
connect_to_socket(n, host, port) == [id |-> n, host |-> host, port |-> port]

\* main: the socket the run starts with, and the run's arguments
TxInit ==
    /\ RInit
    /\ \E src \in SourceLists :
          tx \in { [ pc |-> "start", kind |-> j, sources |-> src, files |-> fl,
                     target |-> tg,
                     messages |-> <<>>, i |-> 0, attempt |-> 0, success |-> FALSE,
                     sock |-> connect_to_socket(0, tg.host, tg.port),
                     slept |-> 0, log |-> <<>>, wrote |-> FALSE, ack |-> "none" ] :
                   j \in PathKinds, fl \in FileLists(src), tg \in Targets }
    /\ sched = 0 /\ stitch = 0 /\ build = 0

\* the loop going back to the message it has just delivered
StartMessageAgain(t, k) ==
    IF k > Len(t.messages)
    THEN [t EXCEPT !.pc = "done", !.i = k]
    ELSE IF k > 1
    THEN [t EXCEPT !.pc = "send", !.i = k - 1, !.attempt = 0, !.success = FALSE]
    ELSE [t EXCEPT !.pc = "send", !.i = k, !.attempt = 0, !.success = FALSE]

\* for source, msg in messages.items(): attempt = 0; success = False
StartMessage(t, k) ==
    IF k > Len(t.messages)
    THEN [t EXCEPT !.pc = "done", !.i = k]
    ELSE [t EXCEPT !.pc = "send", !.i = k, !.attempt = 0, !.success = FALSE]

\* lines 178-202: the files are gathered, read and parsed and the parseable
\* ones kept, unless an exception leaves the run on the way
TxGather ==
    /\ tx.pc = "start"
    /\ tx' = IF GatherRaises(tx)
             THEN [tx EXCEPT !.pc = "raised"]
             ELSE StartMessage([tx EXCEPT !.messages = Gather(tx.sources, tx.files, 1)], 1)
    /\ UNCHANGED <<rvars, ovars>>

\* the loop test off by one: while attempt <= 5
LoopTestOffByOne(t) ==
    IF t.attempt <= MaxAttempts THEN [t EXCEPT !.pc = "send"]
                                ELSE [t EXCEPT !.pc = "aborted"]

\* while attempt < 5 ... if success is False: return
LoopTest(t) ==
    IF t.attempt < MaxAttempts THEN [t EXCEPT !.pc = "send"]
                               ELSE [t EXCEPT !.pc = "aborted"]

\* the run going on to the next message after an error that is no broken pipe
ExceptGoesOn(t, e) ==
    IF e = "BrokenPipeError"
    THEN [t EXCEPT !.attempt = @ + 1, !.pc = "backoff"]
    ELSE StartMessage(t, t.i + 1)

\* except BrokenPipeError: attempt += 1, then the back-off;
\* except Exception: break, and success is False: return
Except(t, e) ==
    IF e = "BrokenPipeError"
    THEN [t EXCEPT !.attempt = @ + 1, !.pc = "backoff"]
    ELSE [t EXCEPT !.pc = "aborted"]

Attempt(t, result) ==
    [msg |-> t.messages[t.i], sock |-> t.sock.id, result |-> result]

SetLast(l, result) == [l EXCEPT ![Len(l)].result = result]

\* epic_socket["socket"].sendall(msg) returns or raises
TxSend(e) ==
    /\ tx.pc = "send"
    /\ tx' = IF e = "ok"
             THEN [tx EXCEPT !.pc = "recv", !.wrote = TRUE, !.ack = "none",
                             !.log = Append(@, Attempt(tx, "written"))]
             ELSE Except([tx EXCEPT !.wrote = FALSE, !.ack = "none",
                                    !.log = Append(@, Attempt(tx, e))], e)
    /\ UNCHANGED <<rvars, ovars>>

\* a read that returned nothing taken for a failed attempt
ReceivedNeedsAck(t, data) ==
    IF data = "empty"
    THEN [t EXCEPT !.ack = data, !.attempt = @ + 1, !.pc = "backoff"]
    ELSE StartMessage([t EXCEPT !.success = TRUE, !.ack = data,
                                !.log = SetLast(@, "delivered")], t.i + 1)

\* recv returned, with an ack or with nothing: the log line, success = True,
\* break, and the for loop goes to the next message
Received(t, data) ==
    StartMessage([t EXCEPT !.success = TRUE, !.ack = data,
                           !.log = SetLast(@, "delivered")], t.i + 1)

\* data = epic_socket["socket"].recv(1024) returns (an ack or nothing) or
\* raises; when it returns, success = True; break, and the next message
TxRecv(e) ==
    /\ tx.pc = "recv"
    /\ tx' = IF e \in {"data", "empty"}
             THEN Received(tx, e)
             ELSE Except([tx EXCEPT !.log = SetLast(@, e)], e)
    /\ UNCHANGED <<rvars, ovars>>

\* time.sleep(300); a new socket; connect_to_socket, whose exception would
\* leave the run; then the loop test
TxBackoff(connected) ==
    /\ tx.pc = "backoff"
    /\ tx' = IF connected
             THEN LoopTest([tx EXCEPT
                     !.slept = @ + BackOff,
                     !.sock = connect_to_socket(tx.sock.id + 1, tx.target.host,
                                                tx.target.port)])
             ELSE [tx EXCEPT !.slept = @ + BackOff, !.pc = "raised"]
    /\ UNCHANGED <<rvars, ovars>>

TxNext ==
    \/ TxGather
    \/ \E e \in {"ok"} \cup Errors : TxSend(e)
    \/ \E e \in {"data", "empty"} \cup Errors : TxRecv(e)
    \/ \E connected \in BOOLEAN : TxBackoff(connected)

TxSpec == TxInit /\ [][TxNext]_vars

\* ---------------------------------------------- claims on the transmitter
\* the delivery attempts made for message m, as positions of the run's log
Sends(m) == { k \in 1..Len(tx.log) : tx.log[k].msg = m }

BrokenPipes(m) == { k \in Sends(m) : tx.log[k].result = "BrokenPipeError" }

\* C8: after a delivery attempt that met a broken or a reset connection the
\* run backs off 300, reconnects with a fresh socket to the same host and
\* port, and the next frame it writes is the same message again.
C8_BrokenOrResetRetries ==
    \A k \in 1..Len(tx.log) :
        tx.log[k].result \in {"BrokenPipeError", "ConnectionResetError"} =>
            IF k < Len(tx.log)
            THEN /\ tx.log[k + 1].msg = tx.log[k].msg
                 /\ tx.log[k + 1].sock = tx.log[k].sock + 1
            ELSE \/ tx.pc = "backoff" /\ tx.attempt = Cardinality(BrokenPipes(tx.log[k].msg))
                 \/ /\ tx.pc = "send"
                    /\ tx.messages[tx.i] = tx.log[k].msg
                    /\ tx.sock = connect_to_socket(tx.log[k].sock + 1, tx.target.host,
                                                   tx.target.port)
                    /\ tx.slept = BackOff * tx.sock.id
                 \/ tx.pc = "aborted" /\ tx.attempt = MaxAttempts
                 \/ tx.pc = "raised"

\* C9: the attempt counter counts the broken pipes of the current message
\* from 0, no message's frame is written more than 5 times, and after 5
\* broken pipes on one message the run aborts with no later frame written.
C9_AtMostFiveAttempts ==
    /\ \A m \in Range(tx.messages) : Cardinality(Sends(m)) <= MaxAttempts
    /\ tx.pc \in {"send", "recv", "backoff"} =>
          tx.attempt = Cardinality(BrokenPipes(tx.messages[tx.i]))
    /\ \A m \in Range(tx.messages) :
          Cardinality(BrokenPipes(m)) = MaxAttempts =>
              /\ tx.pc \in {"backoff", "aborted", "raised"}
              /\ Last(tx.log).msg = m

\* the second of three messages, the first delivered, failed 5 times on a
\* broken pipe and the run aborted
C9_Witness ==
    /\ tx.pc = "aborted" /\ tx.attempt = MaxAttempts
    /\ Len(tx.messages) = 3 /\ tx.i = 2
    /\ tx.log[1].result = "delivered"
    /\ Cardinality(BrokenPipes(tx.messages[2])) = MaxAttempts

\* C10: an attempt that met an error other than a broken pipe is the last
\* attempt of the run: no further frame of that or any later message is
\* written, and the run has aborted.
C10_OtherErrorAbortsRun ==
    \A k \in 1..Len(tx.log) :
        tx.log[k].result \in Errors \ {"BrokenPipeError"} =>
            k = Len(tx.log) /\ tx.pc = "aborted"

\* message 2 of 3 met a timeout after message 1 was delivered
C10_Witness ==
    /\ tx.pc = "aborted"
    /\ Len(tx.messages) = 3 /\ tx.i = 2
    /\ tx.log[1].result = "delivered"
    /\ Last(tx.log) = [msg |-> tx.messages[2], sock |-> 0, result |-> "TimeoutError"]

\* the position of message m among the run's keyed messages
Position(m) == CHOOSE j \in 1..Len(tx.messages) : tx.messages[j] = m

\* the run has gone on from message m to the one after it
GoneOnFrom(m) ==
    /\ tx.i = Position(m) + 1
    /\ tx.pc \in {"send", "recv", "backoff", "aborted", "raised", "done"}
    /\ tx.pc = "done" <=> (tx.i > Len(tx.messages) /\ Last(tx.log).msg = m)

\* C11: a message delivered after k broken pipes (0 <= k < 5) is delivered
\* exactly once, with exactly k reconnects made for it, and the run goes on
\* to the next message.
C11_RetriesThenDelivered ==
    \A k \in 1..Len(tx.log) :
        tx.log[k].result = "delivered" =>
            LET m == tx.log[k].msg
                first == CHOOSE j \in Sends(m) : \A h \in Sends(m) : j <= h
            IN  /\ Sends(m) = BrokenPipes(m) \cup {k}
                /\ Cardinality(BrokenPipes(m)) < MaxAttempts
                /\ tx.log[k].sock - tx.log[first].sock = Cardinality(BrokenPipes(m))
                /\ k < Len(tx.log) => tx.log[k + 1].msg = tx.messages[Position(m) + 1]
                /\ k = Len(tx.log) => GoneOnFrom(m)

\* the first message delivered at the third attempt, on the third socket,
\* and the second message then attempted
C11_Witness ==
    /\ Len(tx.log) = 4
    /\ tx.log[1].result = "BrokenPipeError" /\ tx.log[2].result = "BrokenPipeError"
    /\ tx.log[3] = [msg |-> tx.messages[1], sock |-> 2, result |-> "delivered"]
    /\ tx.log[4].msg = tx.messages[2]

\* C12 as stated: once the frame of the last attempt has been written and
\* the read is over, the delivery counts and the run has gone on, whether
\* the read returned an ack, returned nothing or raised.
C12_WrittenMeansDelivered ==
    (tx.wrote /\ tx.pc # "recv") =>
        /\ Last(tx.log).result = "delivered"
        /\ tx.i = Position(Last(tx.log).msg) + 1

\* C12, amended: once the frame has been written and the read has returned,
\* with an ack or with nothing, the delivery counts and the run goes on to
\* the next keyed message (or is done, after the last); when the read has
\* raised instead, the attempt is recorded as failed with that error, not
\* as a delivery, and the run has not gone on to the next keyed message.
C12_ReadReturnedMeansDelivered ==
    (tx.wrote /\ tx.pc # "recv") =>
        IF tx.ack \in {"data", "empty"}
        THEN /\ Last(tx.log).result = "delivered"
             /\ tx.i = Position(Last(tx.log).msg) + 1
             /\ tx.pc \in {"send", "done"}
        ELSE /\ Last(tx.log).result \in Errors
             /\ tx.i = Position(Last(tx.log).msg)
             /\ tx.pc # "done"

\* the first of two messages counted as delivered on a read that returned
\* nothing, the run now at the second
C12_Witness ==
    /\ tx.wrote /\ tx.ack = "empty" /\ tx.pc = "send" /\ tx.i = 2
    /\ Last(tx.log) = [msg |-> tx.messages[1], sock |-> 0, result |-> "delivered"]

\* the run ended by return before the last message was delivered
StoppedEarly == tx.pc = "aborted"

\* C13: a run ends early only because one message used up its 5 attempts or
\* met a delivery error that is no broken pipe; nothing else ends the run,
\* and no exception leaves it.
C13_OnlyTwoStopReasons ==
    /\ tx.pc # "raised"
    /\ StoppedEarly =>
          \/ tx.attempt = MaxAttempts
          \/ Last(tx.log).result \in Errors \ {"BrokenPipeError"}

\* C14: a run that has ended without any send or receive error has written
\* the frame of every gathered parseable message exactly once, in enumeration order,
\* each after the read for the one before returned, and has completed.
C14_CleanRunWritesAllInOrder ==
    /\ \A k \in 1..(Len(tx.log) - 1) : tx.log[k].result # "written"
    /\ (tx.pc \notin {"start", "send", "recv", "backoff"}
          /\ \A k \in 1..Len(tx.log) : tx.log[k].result \notin Errors)
       => /\ tx.pc = "done"
          /\ [k \in 1..Len(tx.log) |-> tx.log[k].msg] = Gather(tx.sources, tx.files, 1)
          /\ \A k \in 1..Len(tx.log) : tx.log[k].result = "delivered"

\* --------------------------------------------- the scheduler (schedule_job)
\* Time is in seconds.  The table holds one entry per weekday and hour from
\* 08:00 to 17:00; within the horizon looked at, MaxSlots consecutive hourly
\* entries come due, each once (its next turn is a week later).
MaxSlots == 3
PollSleep == 60
Hour == 3600

\* .at(f"{i:02d}:00") for i in range(8, 18): the due times of the entries,
\* counted from the full hour before schedule_job was called
Slots == { Hour * k : k \in 1..MaxSlots }

Horizon == Hour * (MaxSlots + 1)

\* how a call of parse_and_send_message ends: it returns after the last
\* message ("done"), returns early ("aborted"), or an exception leaves it
\* ("raised"); see the final values of tx.pc
RunOutcomes == {"done", "aborted", "raised"}

\* the time a run takes: none, one back-off, or two hours
RunTimes == {0, BackOff, Hour * 2}

\* sorted(runnable_jobs): ascending by next_run
RECURSIVE Sorted(_)
Sorted(S) ==
    IF S = {} THEN <<>>
    ELSE LET m == CHOOSE x \in S : \A y \in S : x <= y
         IN  <<m>> \o Sorted(S \ {m})

\* the loop going on without sleeping
NoSleep(clock) == clock

\* time.sleep(60)
Sleep(clock) == clock + PollSleep

SchedInit ==
    /\ RInit
    /\ tx = 0 /\ stitch = 0 /\ build = 0
    /\ sched \in { [ pc |-> "poll", clock |-> c, pending |-> Slots, batch |-> <<>>,
                    active |-> 0, lastPoll |-> -1, started |-> <<>>,
                    outcome |-> "none" ] : c \in {0, PollSleep \div 2} }

\* schedule.run_pending(): the jobs due now, in order of their due time
SchedPoll ==
    /\ sched.pc = "poll"
    /\ sched' = [sched EXCEPT !.pc = "batch", !.lastPoll = sched.clock,
                     !.batch = Sorted({ j \in sched.pending : j <= sched.clock })]
    /\ UNCHANGED <<rvars, tx, stitch, build>>

\* run_pending calls the next due job: parse_and_send_message is entered
SchedRun ==
    /\ sched.pc = "batch"
    /\ sched.batch # <<>>
    /\ sched' = [sched EXCEPT !.pc = "run", !.active = @ + 1,
                     !.pending = @ \ {Head(sched.batch)},
                     !.started = Append(@, [slot |-> Head(sched.batch),
                                            at |-> sched.clock])]
    /\ UNCHANGED <<rvars, tx, stitch, build>>

\* the job function returns, or an exception leaves it; the exception is
\* caught neither by run_pending nor by the while loop nor by main
SchedRunEnds(outcome, d) ==
    /\ sched.pc = "run"
    /\ sched' = [sched EXCEPT !.pc = IF outcome = "raised" THEN "stopped" ELSE "batch",
                     !.active = @ - 1, !.clock = @ + d,
                     !.batch = Tail(@), !.outcome = outcome]
    /\ UNCHANGED <<rvars, tx, stitch, build>>

\* run_pending has returned; time.sleep(60), then the loop polls again
SchedSleep ==
    /\ sched.pc = "batch"
    /\ sched.batch = <<>>
    /\ sched.clock < Horizon
    /\ sched' = [sched EXCEPT !.pc = "poll", !.clock = Sleep(@)]
    /\ UNCHANGED <<rvars, tx, stitch, build>>

SchedNext ==
    \/ SchedPoll
    \/ SchedRun
    \/ \E outcome \in RunOutcomes, d \in RunTimes : SchedRunEnds(outcome, d)
    \/ SchedSleep

SchedSpec == SchedInit /\ [][SchedNext]_vars

\* C15: in schedule mode at most one run is active at any time: a run is
\* started only when it is due and no run is in progress, and the loop
\* polls again only after the run has returned and 60 seconds have passed.
C15_OneRunAtATime ==
    /\ sched.active <= 1
    /\ sched.active = 1 <=> sched.pc = "run"
    /\ \A k \in 1..Len(sched.started) :
          /\ sched.started[k].slot <= sched.started[k].at
          /\ k > 1 => sched.started[k - 1].at <= sched.started[k].at
    /\ (sched.pc = "poll" /\ sched.lastPoll >= 0) =>
          /\ sched.active = 0
          /\ sched.clock >= sched.lastPoll + PollSleep

\* a first run that took two hours; the next poll found two entries due and
\* ran them one after the other, the later one after the back-off the
\* earlier one took; the loop is about to poll again
C15_Witness ==
    /\ sched.pc = "poll"
    /\ Len(sched.started) = 3
    /\ sched.started[2].at = sched.lastPoll
    /\ sched.started[3].at = sched.lastPoll + BackOff
    /\ sched.started[2].at >= sched.started[1].at + Hour * 2

\* C20: a run that ends by abort, be it by return or by an exception such
\* as a failed reconnect, does not stop the scheduler: the loop keeps polling.
C20_AbortKeepsScheduler ==
    sched.outcome \in {"aborted", "raised"} => sched.pc # "stopped"

\* ------------------------------------------- the segment stitcher (stitch_up)
\* A text is the sequence of its lines; a line is the white space before it
\* (there or not), its fields, the parts between the '|', and the white
\* space after it (there or not); a field is a sequence of characters.  A
\* blank line has one field, the empty one.
MaxFirst == 3
MaxSecond == 2

Line(ind, fields, tr) == [indent |-> ind, parts |-> fields, trail |-> tr]

\* the lines of a text of the first directory
FirstLines ==
    { Line(FALSE, << <<"OBX">>, <<"7">>, <<"a">> >>, FALSE),
      Line(TRUE,  << <<"OBX">>, <<"1">>, <<"b">> >>, TRUE),
      Line(FALSE, << <<"SPM">>, <<"1">> >>, FALSE),
      Line(TRUE,  << <<"SPM">>, <<"1">> >>, FALSE),
      Line(FALSE, << <<"ZSP">>, <<"1">> >>, FALSE),
      Line(FALSE, << <<"PID">>, <<"1">> >>, TRUE),
      Line(FALSE, << <<>> >>, FALSE) }

\* the lines of a text of the second directory
SecondLines ==
    { Line(FALSE, << <<"OBX">>, <<"7">>, <<"a">> >>, FALSE),
      Line(TRUE,  << <<"OBX">>, <<"1">>, <<"b">> >>, TRUE),
      Line(FALSE, << <<"PID">>, <<"1">> >>, FALSE),
      Line(TRUE,  << <<>> >>, FALSE) }

\* the texts of at most n of the lines
RECURSIVE Texts(_, _)
Texts(lines, n) ==
    IF n = 0 THEN { <<>> }
    ELSE Texts(lines, n - 1)
            \cup { Append(t, l) : t \in { u \in Texts(lines, n - 1) : Len(u) = n - 1 },
                                  l \in lines }

\* str(n), n >= 0
Digit == <<"0", "1", "2", "3", "4", "5", "6", "7", "8", "9">>
RECURSIVE str(_)
str(n) == IF n < 10 THEN <<Digit[n + 1]>> ELSE str(n \div 10) \o <<Digit[(n % 10) + 1]>>

\* line.strip(): the white space before the line and after it is gone
line_strip(line) == [line EXCEPT !.indent = FALSE, !.trail = FALSE]

\* line.startswith(name + "|")
line_startswith(line, name) ==
    /\ ~line.indent
    /\ Len(line.parts) >= 2
    /\ line.parts[1] = <<name>>

\* the line is empty or white space only
IsBlank(line) == line.parts = << <<>> >>

\* text.strip().splitlines(): the blank lines before the first line that is
\* not blank and after the last one are gone, and so are the white space
\* before that first line and the white space after that last line
strip_splitlines(text) ==
    LET full == { k \in 1..Len(text) : ~IsBlank(text[k]) }
    IN  IF full = {} THEN <<>>
        ELSE LET a == CHOOSE k \in full : \A j \in full : k <= j
                 b == CHOOSE k \in full : \A j \in full : k >= j
             IN  [k \in 1..(b - a + 1) |->
                    [text[a + k - 1] EXCEPT
                        !.indent = IF k = 1 THEN FALSE ELSE @,
                        !.trail = IF k = b - a + 1 THEN FALSE ELSE @]]

\* get_obx_segments without the strip of each line
get_obx_segments_unstripped(hl7_msg) ==
    SelectSeq(strip_splitlines(hl7_msg), LAMBDA l : line_startswith(l, "OBX"))

get_obx_segments(hl7_msg) ==
    LET lines == strip_splitlines(hl7_msg)
    IN  SelectSeq([k \in 1..Len(lines) |-> line_strip(lines[k])],
                  LAMBDA l : line_startswith(l, "OBX"))

\* next_index = len(result_obx_lines) + 1
next_index(result_obx_lines) == Len(result_obx_lines) + 1

\* for line in response_obx_lines: parts[1] = str(next_index); next_index += 1
new_obx_lines(response_obx_lines, first) ==
    [k \in 1..Len(response_obx_lines) |->
        [response_obx_lines[k] EXCEPT !.parts[2] = str(first + k - 1)]]

\* the number of lines before the first that starts with SPM| or ZSP|,
\* all of them when there is none
insert_idx(lines) ==
    LET hits == { i \in 1..Len(lines) : \/ line_startswith(lines[i], "SPM")
                                         \/ line_startswith(lines[i], "ZSP") }
    IN  IF hits = {} THEN Len(lines)
        ELSE (CHOOSE i \in hits : \A j \in hits : i <= j) - 1

\* lines[:insert_idx] + new_obx_lines + lines[insert_idx:]
merged_lines(result_text, response_text) ==
    LET lines == strip_splitlines(result_text)
        new == new_obx_lines(get_obx_segments(response_text),
                             next_index(get_obx_segments(result_text)))
        at == insert_idx(lines)
    IN  SubSeq(lines, 1, at) \o new \o SubSeq(lines, at + 1, Len(lines))

\* one file name: in which directories it is, and the texts under it
StitchInit ==
    /\ RInit
    /\ tx = 0 /\ sched = 0 /\ build = 0
    /\ \E a \in BOOLEAN, b \in BOOLEAN :
          \E r \in (IF a THEN Texts(FirstLines, MaxFirst) ELSE { <<>> }),
             p \in (IF b THEN Texts(SecondLines, MaxSecond) ELSE { <<>> }) :
              stitch = [ pc |-> "start", inResults |-> a, inResponses |-> b,
                         result_text |-> r, response_text |-> p,
                         written |-> FALSE, output |-> <<>> ]

\* the loop body for this name, if the loop comes to it
StitchName ==
    /\ stitch.pc = "start"
    /\ stitch' =
         IF /\ stitch.inResults
            /\ stitch.inResponses
            /\ get_obx_segments(stitch.response_text) # <<>>
         THEN [stitch EXCEPT !.pc = "done", !.written = TRUE,
                   !.output = merged_lines(stitch.result_text, stitch.response_text)]
         ELSE [stitch EXCEPT !.pc = "done"]
    /\ UNCHANGED <<rvars, tx, sched, build>>

StitchNext == StitchName

StitchSpec == StitchInit /\ [][StitchNext]_vars

\* the lines of a text that are OBX segments, white space around them aside
OBXOf(text) ==
    SelectSeq([k \in 1..Len(text) |-> line_strip(text[k])],
              LAMBDA l : Len(l.parts) >= 2 /\ l.parts[1] = <<"OBX">>)

\* the same lines as they stand in the text
OBXLines(text) ==
    SelectSeq(text, LAMBDA l : Len(l.parts) >= 2 /\ l.parts[1] = <<"OBX">>)

\* the line is an SPM or a ZSP segment, white space around it aside
IsTerminal(line) == Len(line.parts) >= 2 /\ line.parts[1] \in {<<"SPM">>, <<"ZSP">>}

\* the lines of the two sides, the white space at the two ends of each text
\* aside, and how many lines of the first side precede its first SPM or ZSP
\* line
FirstSide == strip_splitlines(stitch.result_text)
SecondSide == strip_splitlines(stitch.response_text)
Before ==
    IF \E i \in 1..Len(FirstSide) : IsTerminal(FirstSide[i])
    THEN CHOOSE c \in 0..(Len(FirstSide) - 1) :
            /\ IsTerminal(FirstSide[c + 1])
            /\ \A j \in 1..c : ~IsTerminal(FirstSide[j])
    ELSE Len(FirstSide)

\* C16: for a name on both sides whose second side has m >= 1 OBX segments
\* and whose first side has n: the output is the first side's lines before
\* its first SPM or ZSP line, then the second side's OBX segments in their
\* order, as they stand there but for field 1, which is n+1..n+m, then the
\* rest of the first side's lines; with no SPM or ZSP line the segments
\* come last.
C16_MergedLayout ==
    (stitch.pc = "done" /\ stitch.inResults /\ stitch.inResponses
        /\ Len(OBXOf(stitch.response_text)) >= 1) =>
        LET obx == OBXLines(SecondSide)
            n == Len(OBXOf(stitch.result_text))
        IN  /\ stitch.written
            /\ stitch.output =
                  SubSeq(FirstSide, 1, Before)
                  \o [j \in 1..Len(obx) |-> [obx[j] EXCEPT !.parts[2] = str(n + j)]]
                  \o SubSeq(FirstSide, Before + 1, Len(FirstSide))

\* C17: an output file is written for a name if and only if the name is in
\* both directories and the second side's text has at least one OBX segment.
C17_OutputIffBothAndOBX ==
    stitch.pc = "done" =>
        (stitch.written <=> /\ stitch.inResults
                            /\ stitch.inResponses
                            /\ Len(OBXOf(stitch.response_text)) >= 1)

\* a name on both sides written, its second side's only OBX segment being a
\* line with white space before it
C17_Witness ==
    /\ stitch.pc = "done" /\ stitch.written
    /\ Len(stitch.response_text) = 2
    /\ Len(OBXOf(stitch.response_text)) = 1
    /\ stitch.response_text[2].indent

\* ------------------------------------ the accept ack, field by field
\* What a field of the original MSH segment may hold: nothing, or a value.
FieldValues == {"", "LAB", "EPIC"}

\* the original message as parse_message reads it: not at all, or with the
\* five MSH fields the ack is built from
Originals ==
    { [ readable |-> TRUE, msh_3 |-> a, msh_4 |-> b, msh_5 |-> c, msh_6 |-> d,
        msh_10 |-> e ] :
      a \in FieldValues, b \in FieldValues, c \in FieldValues, d \in FieldValues,
      e \in FieldValues }
    \cup { [ readable |-> FALSE, msh_3 |-> "", msh_4 |-> "", msh_5 |-> "",
             msh_6 |-> "", msh_10 |-> "" ] }

\* an ack that keeps the sender and receiver fields where they were
accept_ack_unswapped(msg, t) ==
    IF ~msg.readable THEN None
    ELSE << [ seg |-> "MSH", msh_3 |-> msg.msh_3, msh_4 |-> msg.msh_4,
              msh_5 |-> msg.msh_5, msh_6 |-> msg.msh_6,
              msh_7 |-> timestamp(t), msh_9 |-> "ACK", msh_10 |-> "ACK12345" ],
            [ seg |-> "MSA", msa_1 |-> "AA", msa_2 |-> msg.msh_10 ] >>

\* ack_message_back, the segments and fields of what it returns: None when
\* the original cannot be parsed
accept_ack(msg, t) ==
    IF ~msg.readable THEN None
    ELSE << [ seg |-> "MSH", msh_3 |-> msg.msh_5, msh_4 |-> msg.msh_6,
              msh_5 |-> msg.msh_3, msh_6 |-> msg.msh_4,
              msh_7 |-> timestamp(t), msh_9 |-> "ACK", msh_10 |-> "ACK12345" ],
            [ seg |-> "MSA", msa_1 |-> "AA", msa_2 |-> msg.msh_10 ] >>

AckInit ==
    /\ RInit
    /\ tx = 0 /\ sched = 0 /\ stitch = 0
    /\ build \in { [ pc |-> "start", original |-> o, ack |-> None ] : o \in Originals }

\* one call of ack_message_back, at clock reading t
AckBuild(t) ==
    /\ build.pc = "start"
    /\ build' = [build EXCEPT !.pc = "done", !.ack = accept_ack(build.original, t)]
    /\ UNCHANGED <<rvars, tx, sched, stitch>>

AckNext == \E t \in 0..MaxClock : AckBuild(t)

AckSpec == AckInit /\ [][AckNext]_vars

\* C18: for every original whose MSH fields can be read, the accept ack has
\* exactly the segments MSH and MSA, with MSH-3..6 the original's MSH-5, 6,
\* 3, 4, MSH-9 = ACK, MSA-1 = AA and MSA-2 the original's MSH-10.
C18_AcceptAckFields ==
    (build.pc = "done" /\ build.original.readable) =>
        /\ Len(build.ack) = 2
        /\ build.ack[1].seg = "MSH" /\ build.ack[2].seg = "MSA"
        /\ build.ack[1].msh_3 = build.original.msh_5
        /\ build.ack[1].msh_4 = build.original.msh_6
        /\ build.ack[1].msh_5 = build.original.msh_3
        /\ build.ack[1].msh_6 = build.original.msh_4
        /\ build.ack[1].msh_9 = "ACK"
        /\ build.ack[2].msa_1 = "AA"
        /\ build.ack[2].msa_2 = build.original.msh_10

\* an ack built for an original sent by LAB to EPIC under a control id
C18_Witness ==
    /\ build.pc = "done"
    /\ build.original.msh_3 = "LAB" /\ build.original.msh_5 = "EPIC"
    /\ build.original.msh_10 = "LAB"
    /\ build.ack # None
    /\ build.ack[1].msh_3 = "EPIC" /\ build.ack[1].msh_5 = "LAB"
    /\ build.ack[2].msa_2 = "LAB"

====
